---- MODULE Spec2Model ----
(***************************************************************************)
(* Model of nagocheck's persistent check execution:                        *)
(*   shared/plugin.go   ExecutePersistentCheck, createFlock, ensureFlock   *)
(*   shared/store.go    LoadPersistentStore, SavePersistentStore           *)
(*   shared/utils.go    RetryDuring                                        *)
(*   nagocheck/resource loadPersistentData, storePersistentData            *)
(*                                                                         *)
(* Every invocation is an operating system process.  The processes share   *)
(* the lock files below /tmp (a path names an inode, an inode carries at   *)
(* most one exclusive flock) and the shm regions (a name holds a byte      *)
(* sequence).  Time is counted in units of 100ms and passes while an        *)
(* invocation sleeps in RetryDuring or holds the lock; one attempt to take *)
(* the lock and the clock read that follows it take no time.               *)
(***************************************************************************)
EXTENDS Naturals, Integers, Sequences, FiniteSets, TLC

(* ---------------------------- bounds ---------------------------------- *)

\* number of invocations that can run at the same time
NumProcs == 2
\* number of invocations that are started in all
MaxRuns == 3
\* 10*time.Second of ensureFlock, scaled to retry delays
Timeout == 2
\* 100*time.Millisecond of ensureFlock, the unit of time
Delay == 1
\* the number of invocations that may be killed
MaxCrashes == 1
\* the largest value the sequential caller of the store saves
MaxValue == 12
\* the longest discriminator a caller passes as uniqueKey
MaxKeyLen == 2
\* the longest delay RetryDuring is called with
MaxDelay == 2
\* the number of attempts after which a RetryDuring that never sleeps is
\* not followed further
MaxAttempts == 5
\* the largest value of an interface error counter
MaxCounter == 2
\* the number of runs of the interface check that are followed
MaxIfRuns == 3
\* the number of GetInstance calls on one session that are followed
MaxCalls == 3
\* the number of plugins that are made and registered
MaxPlugins == 3

Procs == 1..NumProcs
Keys == {"k1", "k2"}
Inodes == 1..MaxRuns
NoInode == 0
NoProc == 0
\* the values the sequential caller saves and supplies as targets; their
\* encodings have different lengths
Values == {0, 7, MaxValue}
NoValue == -1

(* ------------------------ byte sequences ------------------------------ *)

\* a region that was never created
Absent == <<"absent">>

DigitChars == <<"0", "1", "2", "3", "4", "5", "6", "7", "8", "9">>

IsDigit(c) == \E d \in 1..10 : DigitChars[d] = c

DigitValue(c) == (CHOOSE d \in 1..10 : DigitChars[d] = c) - 1

RECURSIVE Digits(_)
Digits(n) ==
    IF n < 10 THEN <<DigitChars[n + 1]>>
    ELSE Digits(n \div 10) \o <<DigitChars[(n % 10) + 1]>>

RECURSIVE ParseDigits(_)
ParseDigits(bytes) ==
    IF Len(bytes) = 0 THEN 0
    ELSE 10 * ParseDigits(SubSeq(bytes, 1, Len(bytes) - 1))
         + DigitValue(bytes[Len(bytes)])

\* json.Marshal of the store value: the number in decimal
Marshal(v) == Digits(v)

\* a decoder that stops after the first digit
Unmarshal_FirstDigit(bytes, target) ==
    IF Len(bytes) > 0 /\ IsDigit(bytes[1])
    THEN [err |-> FALSE, val |-> DigitValue(bytes[1])]
    ELSE [err |-> TRUE, val |-> target]

\* json.Unmarshal into the target: a JSON number has no leading zero; any
\* other content is a syntax error and leaves the target alone
Unmarshal(bytes, target) ==
    IF /\ Len(bytes) > 0
       /\ \A i \in 1..Len(bytes) : IsDigit(bytes[i])
       /\ (Len(bytes) > 1 => bytes[1] # "0")
    THEN [err |-> FALSE, val |-> ParseDigits(bytes)]
    ELSE [err |-> TRUE, val |-> target]

(* --------------------------- shm regions ------------------------------ *)

\* the flags of a Load: store.go and shmReadFlags of the resource
shmReadFlags == {"O_CREATE", "O_RDONLY", "O_DSYNC", "O_RSYNC"}

\* write flags that lack O_TRUNC
shmWriteFlags_NoTrunc == {"O_CREATE", "O_WRONLY", "O_DSYNC", "O_RSYNC"}

\* the flags of a Save: store.go and shmWriteFlags of the resource
shmWriteFlags == {"O_CREATE", "O_WRONLY", "O_TRUNC", "O_DSYNC", "O_RSYNC"}

\* shmOpenFlags of nagocheck/resource.go, which has no other flags and uses
\* them for the Load and for the Save
resourceOpenFlags == {"O_CREATE", "O_RDONLY", "O_DSYNC", "O_RSYNC"}

\* shm.Open: the content of the region after open(2) with these flags
ShmOpen(region, flags) ==
    IF region = Absent
    THEN (IF "O_CREATE" \in flags THEN <<>> ELSE Absent)
    ELSE (IF "O_TRUNC" \in flags THEN <<>> ELSE region)

\* file.Write on a freshly opened descriptor: the bytes land at offset 0 and
\* replace what was there, bytes of the old content behind them stay.  A
\* descriptor opened without write access fails with EBADF.
FileWrite(region, bytes, flags) ==
    IF "O_WRONLY" \notin flags
    THEN [err |-> TRUE, content |-> region]
    ELSE [err |-> FALSE,
          content |-> bytes \o SubSeq(region, Len(bytes) + 1, Len(region))]

\* a Load that resets the target when the region is empty
LoadDecode_ZeroOnEmpty(bytes, target) ==
    IF Len(bytes) > 0 THEN Unmarshal(bytes, target)
    ELSE [err |-> FALSE, val |-> 0]

\* LoadPersistentStore after the open: ReadAll, then Unmarshal when the
\* region is not empty
LoadDecode(bytes, target) ==
    IF Len(bytes) > 0 THEN Unmarshal(bytes, target)
    ELSE [err |-> FALSE, val |-> target]

(* ------------------------- persistence keys --------------------------- *)

\* the characters names and discriminators are made of: a letter in both
\* cases, the separator of the key and the separator of paths
Alphabet == {"a", "A", "-", "/"}

\* Plugin().Name(): the names of the checks
CheckNames == {<<"a">>, <<"a", "a">>, <<"a", "-", "a">>}

\* the discriminators a caller passes, an interface name for example
Discriminators == UNION {[1..l -> Alphabet] : l \in 1..MaxKeyLen}

\* strings.ToLower on one character
ToLowerChar(c) == IF c = "A" THEN "a" ELSE c

\* strings.ToLower
ToLower(str) == [i \in 1..Len(str) |-> ToLowerChar(str[i])]

\* ".nagocheck-" of ResourcePersistence
ResourcePrefix == <<".", "n", "a", "g", "o", "c", "h", "e", "c", "k", "-">>

\* "nagocheck." of ExecutePersistentCheck
PluginPrefix == <<"n", "a", "g", "o", "c", "h", "e", "c", "k", ".">>

\* the persistence key of a check name and a discriminator: the name of the
\* region.  ResourcePersistence of part_006 and of nagocheck/resource.go,
\* and ExecutePersistentCheck called with <check>-<discriminator>
PersistenceKey(variant, name, uniqueKey) ==
    CASE variant = "resource" ->
           ToLower(ResourcePrefix \o name \o <<"-">> \o uniqueKey)
      [] variant = "resource_v1" -> name \o uniqueKey
      [] variant = "shared" -> PluginPrefix \o (name \o <<"-">> \o uniqueKey)

\* createFlock: fmt.Sprintf("/tmp/.%s.lock", identifier)
LockFilePath(identifier) ==
    <<"/", "t", "m", "p", "/", ".">> \o identifier
        \o <<".", "l", "o", "c", "k">>

\* no key has been derived
NoKey == [variant |-> "none"]

\* no library function has been called
NoCall == [fn |-> "none"]

(* --------------------------- exit status ------------------------------ *)

\* the process has not ended
NoStatus == -1

\* the status of a Go program that ends by an unrecovered panic
PanicStatus == 2

\* the status of a process ended by SIGKILL
KilledStatus == 137

\* the exit codes of a check result: OK, Warning, Critical, Unknown
ExitCodes == 0..3

\* runtime.Execute(check): the result of the evaluation engine.  A probe
\* error makes the verdict Unknown, a probe without error is taken as OK.
RuntimeExecute(err) ==
    [output |-> "verdict", exitCode |-> IF err THEN 3 ELSE 0]

\* a coordinator that always ends with success
OsExit_Zero(result) == 0

\* os.Exit(int(result.ExitCode()))
OsExit(result) == result.exitCode

(* ----------------------------- state ---------------------------------- *)

VARIABLES
    pc,         \* position of each invocation in ExecutePersistentCheck
    key,        \* uniqueKey of each invocation
    fh,         \* flock.fh: the inode the invocation has open, or NoInode
    lockPath,   \* the inode /tmp/.<key>.lock names, or NoInode
    inodeLock,  \* the process holding the flock of an inode, or NoProc
    inodes,     \* number of lock files created so far
    shm,        \* content of the region of each key
    store,      \* the in-memory store value of each invocation
    loaded,     \* the store value as LoadPersistentStore left it
    probeErr,   \* whether the probe of the invocation returned an error
    elapsed,    \* time.Now().Sub(startTime) while RetryDuring runs
    phase,      \* time since the current sleep began
    deltaTime,  \* RetryDuring's deltaTime when it gave up
    trace,      \* the steps the invocation has completed
    runs,       \* number of invocations started so far
    kills,      \* number of invocations killed so far
    saves,      \* per key the number of Saves that have returned
    sop,        \* the Load or Save call of the sequential caller
    last,       \* per key the value of the last Save, once it has returned
    derived,    \* the persistence key the caller derived last, and from what
    exitStatus, \* the status each process has ended with, or NoStatus
    faults,     \* the errors the file systems answer with, per key
    call        \* the call of a library function: its inputs and its result

vars == <<pc, key, fh, lockPath, inodeLock, inodes, shm, store, loaded,
          probeErr,
          elapsed, phase, deltaTime, trace, runs, kills, saves, sop, last,
          derived, exitStatus, faults, call>>

\* the state of the sequential caller of the store
drv == <<sop, last, derived, call>>
\* the state of the invocations, the regions excepted
inv == <<pc, key, fh, lockPath, inodeLock, inodes, store, loaded, probeErr,
         elapsed, phase, deltaTime, trace, runs, kills, saves, exitStatus,
         faults>>
\* the counters of the environment
env == <<runs, kills, saves>>

lockVars == <<fh, lockPath, inodeLock, inodes>>
timeVars == <<elapsed, phase, deltaTime>>

(* ------------------------- initial state ------------------------------ *)

\* the processes work on one key, or the last one on a key of its own
Init ==
    /\ pc = [p \in Procs |-> "start"]
    /\ key \in [Procs -> Keys]
    /\ \A p \in Procs : p < NumProcs => key[p] = "k1"
    /\ fh = [p \in Procs |-> NoInode]
    /\ lockPath = [k \in Keys |-> NoInode]
    /\ inodeLock = [i \in Inodes |-> NoProc]
    /\ inodes = 0
    /\ shm = [k \in Keys |-> Absent]
    /\ store = [p \in Procs |-> 0]
    /\ loaded = [p \in Procs |-> 0]
    /\ probeErr = [p \in Procs |-> FALSE]
    /\ elapsed = [p \in Procs |-> 0]
    /\ phase = [p \in Procs |-> 0]
    /\ deltaTime = [p \in Procs |-> 0]
    /\ trace = [p \in Procs |-> <<>>]
    /\ runs = NumProcs
    /\ kills = 0
    /\ saves = [k \in Keys |-> 0]
    /\ sop = [step |-> "idle"]
    /\ last = [k \in Keys |-> NoValue]
    /\ derived = NoKey
    /\ call = NoCall
    /\ exitStatus = [p \in Procs |-> NoStatus]
    /\ faults = {}

\* content no Unmarshal accepts: the start of a JSON object
Undecodable == <<"{">>

\* the invocations find what earlier runs and other programs have left:
\* the last process works on a key of its own whose region holds content
\* that does not decode, or whose region cannot be written for lack of
\* space, or whose lock file belongs to another user and cannot be opened;
\* or all work on one key that has no region yet
InitPrior ==
    /\ pc = [p \in Procs |-> "start"]
    /\ key \in [Procs -> Keys]
    /\ \A p \in Procs : p < NumProcs => key[p] = "k1"
    /\ fh = [p \in Procs |-> NoInode]
    /\ lockPath = [k \in Keys |-> NoInode]
    /\ inodeLock = [i \in Inodes |-> NoProc]
    /\ inodes = 0
    /\ faults \in {{}, {<<"ENOSPC", "k2">>}, {<<"EACCES", "k2">>}}
    /\ shm \in [Keys -> {Absent, Undecodable}]
    /\ shm["k1"] = Absent
    /\ shm["k2"] = Undecodable => (key[NumProcs] = "k2" /\ faults = {})
    /\ faults # {} => key[NumProcs] = "k2"
    /\ key[NumProcs] = "k2" => (shm["k2"] = Undecodable \/ faults # {})
    /\ store = [p \in Procs |-> 0]
    /\ loaded = [p \in Procs |-> 0]
    /\ probeErr = [p \in Procs |-> FALSE]
    /\ elapsed = [p \in Procs |-> 0]
    /\ phase = [p \in Procs |-> 0]
    /\ deltaTime = [p \in Procs |-> 0]
    /\ trace = [p \in Procs |-> <<>>]
    /\ runs = NumProcs
    /\ kills = 0
    /\ saves = [k \in Keys |-> 0]
    /\ sop = [step |-> "idle"]
    /\ last = [k \in Keys |-> NoValue]
    /\ derived = NoKey
    /\ call = NoCall
    /\ exitStatus = [p \in Procs |-> NoStatus]

(* ------------------- decisions of the coordinator --------------------- *)

\* a loop that already gives up when the timeout is reached
RetryGiveUp_AtTimeout(delta, timeout) == delta >= timeout

\* RetryDuring: the test that ends the loop after a failed attempt
RetryGiveUp(delta, timeout) == delta > timeout

\* a coordinator that ignores the error of ensureFlock
AfterEnsureFlock_Ignore(err) == "load_open"

\* ExecutePersistentCheck: what follows ensureFlock
AfterEnsureFlock(err) == IF err THEN "panicked" ELSE "load_open"

\* a coordinator that goes on after a failed Load
AfterLoad_Ignore(err) == "probe"

\* ExecutePersistentCheck: what follows LoadPersistentStore
AfterLoad(err) == IF err THEN "panicked" ELSE "probe"

\* a coordinator that panics when the probe failed
AfterExecute_AbortOnError(err) == IF err THEN "panicked" ELSE "save_open"

\* ExecutePersistentCheck: what follows runtime.Execute; the result carries
\* the probe's error, the coordinator does not look at it
AfterExecute(err) == "save_open"

\* a coordinator that skips the unlink of the lock file
AfterSave_SkipUnlink(err) == IF err THEN "panicked" ELSE "unlock"

\* ExecutePersistentCheck: what follows SavePersistentStore
AfterSave(err) == IF err THEN "panicked" ELSE "unlink"

\* a Load that opens the region the way Save does
LoadFlags_Trunc == shmWriteFlags

\* the flags LoadPersistentStore opens the region with
LoadFlags == shmReadFlags

\* the flags SavePersistentStore opens the region with
SaveFlags == shmWriteFlags

\* a lock that outlives the unlock and the death of its holder
Released_Keep(p) == inodeLock

\* flock.Unlock: drop the flock the process holds on its open inode; closing
\* the descriptor at process exit has the same effect
Released(p) ==
    [i \in Inodes |-> IF inodeLock[i] = p THEN NoProc ELSE inodeLock[i]]

Log(p, ev) == [trace EXCEPT ![p] = Append(@, ev)]

(* ----------------------- lock acquisition ----------------------------- *)

\* one lock path for all keys
createFlock_OnePath(p) == "k1"

\* createFlock: the lock path of the invocation, /tmp/.<uniqueKey>.lock,
\* named by its key
createFlock(p) == key[p]

\* flock.TryLock, setFh: the open of the lock path fails with EACCES
OpenDenied(k) == <<"EACCES", k>> \in faults

\* createFlock, the first lines of RetryDuring and the first half of the
\* first flock.TryLock: setFh opens the lock path with O_CREATE.  When the
\* open fails no file is open, and every later TryLock opens again and
\* fails again.
TryOpen(p) ==
    /\ pc[p] = "start"
    /\ IF OpenDenied(createFlock(p))
       THEN UNCHANGED <<fh, inodes, lockPath>>
       ELSE IF lockPath[createFlock(p)] = NoInode
       THEN /\ inodes' = inodes + 1
            /\ lockPath' = [lockPath EXCEPT ![createFlock(p)] = inodes + 1]
            /\ fh' = [fh EXCEPT ![p] = inodes + 1]
       ELSE /\ fh' = [fh EXCEPT ![p] = lockPath[createFlock(p)]]
            /\ UNCHANGED <<inodes, lockPath>>
    /\ pc' = [pc EXCEPT ![p] = "try_flock"]
    /\ elapsed' = [elapsed EXCEPT ![p] = 0]
    /\ phase' = [phase EXCEPT ![p] = 0]
    /\ UNCHANGED <<drv, env, exitStatus, key, faults, inodeLock, shm, store,
                   loaded,
                   probeErr,
                   deltaTime, trace>>

\* the invocation is about to call flock: right after the open, or when
\* time.Sleep(delay) has returned
AtFlock(p) ==
    \/ pc[p] = "try_flock"
    \/ pc[p] = "sleep" /\ phase[p] >= Delay

\* flock.TryLock returns true: the lock file is open and flock(2) on it
\* succeeds; an error of the open and a lock held elsewhere both make the
\* function ensureFlock passes to RetryDuring return an error, and
\* RetryDuring sleeps and calls again after any error
TryLock(p) == fh[p] # NoInode /\ inodeLock[fh[p]] = NoProc

\* flock.TryLock, second half: flock(LOCK_EX|LOCK_NB) on the open inode.
\* When it fails RetryDuring reads the clock and gives up or sleeps; giving
\* up makes ExecutePersistentCheck panic, the deferred Unlock finds no lock
\* held and the process ends, which closes the lock file.
TryFlock(p) ==
    /\ AtFlock(p)
    /\ IF TryLock(p)
       THEN /\ inodeLock' = [inodeLock EXCEPT ![fh[p]] = p]
            /\ pc' = [pc EXCEPT ![p] = AfterEnsureFlock(FALSE)]
            /\ trace' = Log(p, "locked")
            /\ elapsed' = [elapsed EXCEPT ![p] = 0]
            /\ UNCHANGED <<fh, deltaTime, exitStatus>>
       ELSE IF RetryGiveUp(elapsed[p], Timeout)
       THEN /\ pc' = [pc EXCEPT ![p] = AfterEnsureFlock(TRUE)]
            /\ deltaTime' = [deltaTime EXCEPT ![p] = elapsed[p]]
            /\ trace' = Log(p, "lock_timeout")
            /\ elapsed' = [elapsed EXCEPT ![p] = 0]
            /\ fh' = [fh EXCEPT ![p] = NoInode]
            /\ exitStatus' = [exitStatus EXCEPT ![p] = PanicStatus]
            /\ UNCHANGED inodeLock
       ELSE /\ pc' = [pc EXCEPT ![p] = "sleep"]
            /\ UNCHANGED <<inodeLock, fh, deltaTime, trace, elapsed,
                           exitStatus>>
    /\ phase' = [phase EXCEPT ![p] = 0]
    /\ UNCHANGED <<drv, env, key, faults, lockPath, inodes, shm, store, loaded,
                   probeErr>>

(* --------------------- load, probe and save --------------------------- *)

\* LoadPersistentStore: shm.Open
LoadOpen(p) ==
    /\ pc[p] = "load_open"
    /\ shm' = [shm EXCEPT ![key[p]] = ShmOpen(@, LoadFlags)]
    /\ pc' = [pc EXCEPT ![p] = "load_read"]
    /\ trace' = Log(p, "load_open")
    /\ UNCHANGED <<drv, env, exitStatus, key, faults, lockVars, store, loaded,
                   probeErr, timeVars>>

\* LoadPersistentStore: ReadAll and Unmarshal.  An error makes
\* ExecutePersistentCheck panic, the deferred Unlock drops the flock.
LoadRead(p) ==
    LET r == LoadDecode(shm[key[p]], store[p]) IN
    /\ pc[p] = "load_read"
    /\ store' = [store EXCEPT ![p] = r.val]
    /\ loaded' = [loaded EXCEPT ![p] = r.val]
    /\ pc' = [pc EXCEPT ![p] = AfterLoad(r.err)]
    /\ IF r.err
       THEN /\ inodeLock' = Released(p)
            /\ fh' = [fh EXCEPT ![p] = NoInode]
            /\ trace' = Log(p, "load_failed")
            /\ exitStatus' = [exitStatus EXCEPT ![p] = PanicStatus]
       ELSE /\ trace' = Log(p, "loaded")
            /\ UNCHANGED <<inodeLock, fh, exitStatus>>
    /\ UNCHANGED <<drv, env, key, faults, lockPath, inodes, shm, probeErr,
                   timeVars>>

\* runtime.Execute(check): the probe counts one up in the store and may
\* then fail
Probe(p) ==
    /\ pc[p] = "probe"
    /\ \E e \in BOOLEAN :
         /\ probeErr' = [probeErr EXCEPT ![p] = e]
         /\ pc' = [pc EXCEPT ![p] = AfterExecute(e)]
    /\ store' = [store EXCEPT ![p] = @ + 1]
    /\ trace' = Log(p, "executed")
    /\ UNCHANGED <<drv, env, exitStatus, key, faults, lockVars, shm, loaded,
                   timeVars>>

\* SavePersistentStore: Marshal and shm.Open
SaveOpen(p) ==
    /\ pc[p] = "save_open"
    /\ shm' = [shm EXCEPT ![key[p]] = ShmOpen(@, SaveFlags)]
    /\ pc' = [pc EXCEPT ![p] = "save_write"]
    /\ trace' = Log(p, "save_open")
    /\ UNCHANGED <<drv, env, exitStatus, key, faults, lockVars, store, loaded,
                   probeErr, timeVars>>

\* file.Write into the region of the key fails with ENOSPC
NoSpace(k) == <<"ENOSPC", k>> \in faults

\* SavePersistentStore: file.Write; when it fails ExecutePersistentCheck
\* panics and the deferred Unlock drops the flock
SaveWrite(p) ==
    LET w == IF NoSpace(key[p])
             THEN [err |-> TRUE, content |-> shm[key[p]]]
             ELSE FileWrite(shm[key[p]], Marshal(store[p]), SaveFlags) IN
    /\ pc[p] = "save_write"
    /\ shm' = [shm EXCEPT ![key[p]] = w.content]
    /\ pc' = [pc EXCEPT ![p] = AfterSave(w.err)]
    /\ IF w.err
       THEN /\ inodeLock' = Released(p)
            /\ fh' = [fh EXCEPT ![p] = NoInode]
            /\ trace' = Log(p, "save_failed")
            /\ exitStatus' = [exitStatus EXCEPT ![p] = PanicStatus]
            /\ UNCHANGED saves
       ELSE /\ trace' = Log(p, "saved")
            /\ saves' = [saves EXCEPT ![key[p]] = @ + 1]
            /\ UNCHANGED <<inodeLock, fh, exitStatus>>
    /\ UNCHANGED <<drv, runs, kills, key, faults, lockPath, inodes, store, loaded,
                   probeErr,
                   timeVars>>

(* ---------------------------- release --------------------------------- *)

\* an unlink that leaves the lock file in place
Unlinked_Keep(k) == lockPath

\* syscall.Unlink of the lock path of a key: the name is gone, the inode
\* lives on while a process has it open
Unlinked(k) == [lockPath EXCEPT ![k] = NoInode]

\* syscall.Unlink(fileLock.Path()): the path loses whatever inode it names
Unlink(p) ==
    /\ pc[p] = "unlink"
    /\ lockPath' = Unlinked(createFlock(p))
    /\ pc' = [pc EXCEPT ![p] = "unlock"]
    /\ trace' = Log(p, "unlinked")
    /\ UNCHANGED <<drv, env, exitStatus, key, faults, fh, inodeLock, inodes, shm,
                   store, loaded,
                   probeErr, timeVars>>

\* fileLock.Unlock() (LOCK_UN and close), then fmt.Print(result.Output())
\* and os.Exit(int(result.ExitCode()))
Unlock(p) ==
    /\ pc[p] = "unlock"
    /\ inodeLock' = Released(p)
    /\ fh' = [fh EXCEPT ![p] = NoInode]
    /\ pc' = [pc EXCEPT ![p] = "exited"]
    /\ trace' = [trace EXCEPT ![p] = @ \o <<"unlocked", "printed", "exit">>]
    /\ exitStatus' =
         [exitStatus EXCEPT ![p] = OsExit(RuntimeExecute(probeErr[p]))]
    /\ UNCHANGED <<drv, env, key, faults, lockPath, inodes, shm, store, loaded,
                   probeErr,
                   timeVars>>

(* ------------------------ the environment ----------------------------- *)

Running == {"try_flock", "sleep", "load_open", "load_read", "probe",
            "save_open", "save_write", "unlink", "unlock"}

\* the process is killed; the kernel closes its descriptors, which drops
\* its flock, the lock file and the region stay as they are
Crash(p) ==
    /\ pc[p] \in Running
    /\ kills < MaxCrashes
    /\ kills' = kills + 1
    /\ pc' = [pc EXCEPT ![p] = "crashed"]
    /\ inodeLock' = Released(p)
    /\ fh' = [fh EXCEPT ![p] = NoInode]
    /\ elapsed' = [elapsed EXCEPT ![p] = 0]
    /\ phase' = [phase EXCEPT ![p] = 0]
    /\ trace' = [trace EXCEPT ![p] = @ \o <<"killed_at", pc[p]>>]
    /\ exitStatus' = [exitStatus EXCEPT ![p] = KilledStatus]
    /\ UNCHANGED <<drv, runs, saves, key, faults, lockPath, inodes, shm, store,
                   loaded, probeErr, deltaTime>>

Ended == {"exited", "panicked", "crashed"}

\* the check is invoked again: a new process with a fresh store
Restart(p) ==
    /\ pc[p] \in Ended
    /\ runs < MaxRuns
    /\ runs' = runs + 1
    /\ pc' = [pc EXCEPT ![p] = "start"]
    /\ store' = [store EXCEPT ![p] = 0]
    /\ loaded' = [loaded EXCEPT ![p] = 0]
    /\ probeErr' = [probeErr EXCEPT ![p] = FALSE]
    /\ deltaTime' = [deltaTime EXCEPT ![p] = 0]
    /\ trace' = [trace EXCEPT ![p] = <<>>]
    /\ exitStatus' = [exitStatus EXCEPT ![p] = NoStatus]
    /\ UNCHANGED <<drv, kills, saves, key, faults, lockVars, shm, elapsed, phase>>

\* time passes for the invocations that sleep in RetryDuring: a sleep takes
\* exactly Delay and an attempt no time, the holder of the lock is under no
\* deadline
Tick ==
    /\ \E p \in Procs : pc[p] = "sleep"
    /\ \A p \in Procs :
         /\ pc[p] # "try_flock"
         /\ pc[p] = "sleep" => phase[p] < Delay
    /\ elapsed' = [p \in Procs |->
                     IF pc[p] = "sleep" THEN elapsed[p] + 1 ELSE elapsed[p]]
    /\ phase' = [p \in Procs |->
                   IF pc[p] = "sleep" THEN phase[p] + 1 ELSE phase[p]]
    /\ UNCHANGED <<drv, env, exitStatus, pc, key, faults, lockVars, shm, store,
                   loaded, probeErr,
                   deltaTime, trace>>

(* ------------- the store called by one caller at a time --------------- *)

\* the three implementations: shared/store.go, the resource of part_006
\* and the resource of nagocheck/resource.go
Variants == {"shared", "resource", "resource_v1"}

\* the flags each implementation opens the region with for a Load
LoadFlagsOf(variant) ==
    CASE variant = "shared" -> LoadFlags
      [] variant = "resource" -> shmReadFlags
      [] variant = "resource_v1" -> resourceOpenFlags

\* the flags each implementation opens the region with for a Save
SaveFlagsOf(variant) ==
    CASE variant = "shared" -> SaveFlags
      [] variant = "resource" -> shmWriteFlags
      [] variant = "resource_v1" -> resourceOpenFlags

Idle == sop.step \in {"idle", "done"}

\* Load(k, target) is called: shm.Open
DrvLoadOpen(variant, k, target) ==
    /\ Idle
    /\ sop' = [step |-> "io", op |-> "load", variant |-> variant, k |-> k,
               v |-> target, before |-> shm, err |-> FALSE, val |-> target]
    /\ shm' = [shm EXCEPT ![k] = ShmOpen(@, LoadFlagsOf(variant))]
    /\ UNCHANGED <<inv, last, derived, call>>

\* ReadAll and Unmarshal, Load returns
DrvLoadRead ==
    LET r == LoadDecode(shm[sop.k], sop.v) IN
    /\ sop.step = "io" /\ sop.op = "load"
    /\ sop' = [sop EXCEPT !.step = "done", !.err = r.err, !.val = r.val]
    /\ UNCHANGED <<inv, shm, last, derived, call>>

\* Save(k, v) is called: Marshal and shm.Open
DrvSaveOpen(variant, k, v) ==
    /\ Idle
    /\ sop' = [step |-> "io", op |-> "save", variant |-> variant, k |-> k,
               v |-> v, before |-> shm, err |-> FALSE, val |-> v]
    /\ shm' = [shm EXCEPT ![k] = ShmOpen(@, SaveFlagsOf(variant))]
    /\ last' = [last EXCEPT ![k] = NoValue]
    /\ UNCHANGED <<inv, derived, call>>

\* file.Write, Save returns
DrvSaveWrite ==
    LET w == FileWrite(shm[sop.k], Marshal(sop.v), SaveFlagsOf(sop.variant)) IN
    /\ sop.step = "io" /\ sop.op = "save"
    /\ shm' = [shm EXCEPT ![sop.k] = w.content]
    /\ sop' = [sop EXCEPT !.step = "done", !.err = w.err]
    /\ last' = [last EXCEPT ![sop.k] = IF w.err THEN NoValue ELSE sop.v]
    /\ UNCHANGED <<inv, derived, call>>

\* the caller is killed between the open and the read or write
DrvCrash ==
    /\ sop.step = "io"
    /\ sop' = [step |-> "idle"]
    /\ UNCHANGED <<inv, shm, last, derived, call>>

\* the persistenceKey of a resource made without ResourcePersistence
EmptyKey == <<>>

\* a resource that never skips
SkipPersistence_Never(persistenceKey) == FALSE

\* loadPersistentData and storePersistentData: the test that skips them
SkipPersistence(persistenceKey) == persistenceKey = EmptyKey

\* loadPersistentData of a resource without a persistence key: it returns
\* nil at once; past the test shm.Open of the empty name would fail
DrvLoadNoKey(variant, target) ==
    /\ Idle
    /\ variant \in {"resource", "resource_v1"}
    /\ sop' = [step |-> "done", op |-> "load_nokey", variant |-> variant,
               k |-> EmptyKey, v |-> target, before |-> shm,
               err |-> ~SkipPersistence(EmptyKey), val |-> target]
    /\ UNCHANGED <<inv, shm, last, derived, call>>

\* storePersistentData of a resource without a persistence key
DrvSaveNoKey(variant, v) ==
    /\ Idle
    /\ variant \in {"resource", "resource_v1"}
    /\ sop' = [step |-> "done", op |-> "save_nokey", variant |-> variant,
               k |-> EmptyKey, v |-> v, before |-> shm,
               err |-> ~SkipPersistence(EmptyKey), val |-> v]
    /\ UNCHANGED <<inv, shm, last, derived, call>>

NextStore ==
    \/ \E variant \in Variants, k \in Keys, t \in Values :
         DrvLoadOpen(variant, k, t)
    \/ DrvLoadRead
    \/ \E variant \in Variants, k \in Keys, v \in Values :
         DrvSaveOpen(variant, k, v)
    \/ DrvSaveWrite
    \/ DrvCrash
    \/ \E variant \in Variants, t \in Values : DrvLoadNoKey(variant, t)
    \/ \E variant \in Variants, v \in Values : DrvSaveNoKey(variant, v)

SpecStore == Init /\ [][NextStore]_vars

(* ------------------ the derivation of persistence keys ---------------- *)

\* a resource or a plugin is set up for a check name and a discriminator
DeriveKey(variant, name, uniqueKey) ==
    /\ derived' = [variant |-> variant, name |-> name,
                   uniqueKey |-> uniqueKey,
                   key |-> PersistenceKey(variant, name, uniqueKey)]
    /\ UNCHANGED <<inv, shm, sop, last, call>>

NextKey ==
    \E variant \in Variants, name \in CheckNames, uniqueKey \in Discriminators :
        DeriveKey(variant, name, uniqueKey)

SpecKey == Init /\ [][NextKey]_vars

(* ---------------- library functions, called one at a time ------------ *)

\* baseResource.Probe of nagocheck/resource.go: loadPersistentData, the
\* wrapped Resource.Probe, storePersistentData, each left by a return when
\* it fails
ResourceProbe(lErr, pErr, sErr) ==
    IF lErr
    THEN [probed |-> FALSE, storeAttempted |-> FALSE, err |-> "load"]
    ELSE IF pErr
    THEN [probed |-> TRUE, storeAttempted |-> FALSE, err |-> "probe"]
    ELSE [probed |-> TRUE, storeAttempted |-> TRUE,
          err |-> IF sErr THEN "store" ELSE "nil"]

\* no call is under way
CallIdle == IF call.fn = "RetryDuring" THEN call.pc = "returned" ELSE TRUE

\* baseResource.Probe is called; the three steps fail or not
CallResourceProbe(lErr, pErr, sErr) ==
    /\ CallIdle
    /\ call' = [fn |-> "Probe", loadErr |-> lErr, probeErr |-> pErr,
                storeErr |-> sErr,
                result |-> ResourceProbe(lErr, pErr, sErr)]
    /\ UNCHANGED <<inv, shm, sop, last, derived>>

\* the time one call of the function takes
AttemptDurs == {0, 1}

\* RetryDuring(timeout, delay, function) is called: startTime := time.Now()
RdCall(timeout, delay) ==
    /\ CallIdle
    /\ call' = [fn |-> "RetryDuring", pc |-> "attempt", timeout |-> timeout,
                delay |-> delay, elapsed |-> 0, attempts |-> 0,
                outcomes |-> <<>>, deltaTime |-> 0, ret |-> "none"]
    /\ UNCHANGED <<inv, shm, sop, last, derived>>

\* a loop that goes on after an attempt without error
RdAfterAttempt_GoOn(ok) == "check"

\* RetryDuring: err = function(); if err == nil { return }
RdAfterAttempt(ok) == IF ok THEN "returned" ELSE "check"

\* attempts++ and the call of the function, which takes its time and
\* returns an error or none
RdAttempt(ok, dur) ==
    /\ call.fn = "RetryDuring" /\ call.pc = "attempt"
    /\ call.attempts < MaxAttempts
    /\ call' = [call EXCEPT !.attempts = @ + 1,
                            !.outcomes = Append(@, ok),
                            !.elapsed = @ + dur,
                            !.pc = RdAfterAttempt(ok),
                            !.ret = IF RdAfterAttempt(ok) = "returned"
                                    THEN "nil" ELSE "none"]
    /\ UNCHANGED <<inv, shm, sop, last, derived>>

\* deltaTime := time.Now().Sub(startTime); if deltaTime > timeout { return
\* the error }
RdCheck ==
    /\ call.fn = "RetryDuring" /\ call.pc = "check"
    /\ call' = [call EXCEPT !.deltaTime = call.elapsed,
                            !.pc = IF RetryGiveUp(call.elapsed, call.timeout)
                                   THEN "returned" ELSE "sleep",
                            !.ret = IF RetryGiveUp(call.elapsed, call.timeout)
                                    THEN "error" ELSE "none"]
    /\ UNCHANGED <<inv, shm, sop, last, derived>>

\* a sleep during which the clock stands still
SleepAdvance_Frozen(delay) == 0

\* time.Sleep(delay): the time that has passed when it returns
SleepAdvance(delay) == delay

\* time.Sleep(delay)
RdSleep ==
    /\ call.fn = "RetryDuring" /\ call.pc = "sleep"
    /\ call' = [call EXCEPT !.elapsed = @ + SleepAdvance(call.delay),
                            !.pc = "attempt"]
    /\ UNCHANGED <<inv, shm, sop, last, derived>>

\* a step of the loop of RetryDuring
RdStep ==
    \/ \E ok \in BOOLEAN, dur \in AttemptDurs : RdAttempt(ok, dur)
    \/ RdCheck
    \/ RdSleep

\* ---- the interface check and its delta contexts ----

\* the interface check exists as a resource check (DefineCheck) and as a
\* persistent plugin check (Execute, main)
IfVariants == {"resource", "shared"}

\* the metrics of the error counters, in the order Probe returns them
IfMetrics == <<"errors_tx", "errors_rx">>

Counters == 0..MaxCounter

\* the fields of the persisted structure
IfFields(variant) ==
    IF variant = "resource"
    THEN {"PreviousTransmitErrors", "PreviousReceiveErrors"}
    ELSE {"PreviousTxErrors", "PreviousRxErrors"}

\* the name a field is written under: the json tag where there is one
JsonName(field) ==
    CASE field = "PreviousTransmitErrors" -> "txErrors"
      [] field = "PreviousReceiveErrors" -> "rxErrors"
      [] OTHER -> field

\* both delta contexts bound to one field
BoundField_OneField(variant, metric) ==
    IF variant = "resource" THEN "PreviousReceiveErrors"
    ELSE "PreviousTxErrors"

\* the field NewDeltaContext(metric, &field, ...) is given
BoundField(variant, metric) ==
    IF variant = "resource"
    THEN (IF metric = "errors_tx" THEN "PreviousReceiveErrors"
          ELSE "PreviousTransmitErrors")
    ELSE (IF metric = "errors_tx" THEN "PreviousTxErrors"
          ELSE "PreviousRxErrors")

\* the persisted file before the first run
NoFile == [empty |-> TRUE]

\* json.Unmarshal into the zero structure; an empty file is skipped
IfLoad(variant, file) ==
    [f \in IfFields(variant) |->
        IF file = NoFile THEN 0 ELSE file[JsonName(f)]]

\* json.Marshal of the structure
IfSave(variant, st) ==
    [j \in {JsonName(f) : f \in IfFields(variant)} |->
        st[CHOOSE f \in IfFields(variant) : JsonName(f) = j]]

\* one delta context: the metric is compared with the value its field
\* holds, which the value of the metric then replaces
DeltaEvaluate(variant, st, metric, value) ==
    LET f == BoundField(variant, metric) IN
    [loaded |-> st[f], delta |-> value - st[f],
     store |-> [st EXCEPT ![f] = value]]

\* one run of the check: load, the two contexts in the order of the
\* metrics, save
InterfaceRun(variant, file, cur) ==
    LET s0 == IfLoad(variant, file)
        e1 == DeltaEvaluate(variant, s0, IfMetrics[1], cur[IfMetrics[1]])
        e2 == DeltaEvaluate(variant, e1.store, IfMetrics[2],
                            cur[IfMetrics[2]])
    IN [file |-> IfSave(variant, e2.store),
        loaded |-> [errors_tx |-> e1.loaded, errors_rx |-> e2.loaded],
        delta |-> [errors_tx |-> e1.delta, errors_rx |-> e2.delta]]

\* the first run of the check on an interface: nothing is persisted
CallInterfaceFirst(variant, tx, rx) ==
    /\ CallIdle
    /\ LET cur == [errors_tx |-> tx, errors_rx |-> rx]
           r == InterfaceRun(variant, NoFile, cur)
       IN call' = [fn |-> "interface", variant |-> variant, n |-> 1,
                   cur |-> cur, prev |-> [errors_tx |-> 0, errors_rx |-> 0],
                   file |-> r.file, loaded |-> r.loaded, delta |-> r.delta]
    /\ UNCHANGED <<inv, shm, sop, last, derived>>

\* the next run of the check on the interface, after the one before ended
CallInterfaceNext(tx, rx) ==
    /\ call.fn = "interface"
    /\ call.n < MaxIfRuns
    /\ LET cur == [errors_tx |-> tx, errors_rx |-> rx]
           r == InterfaceRun(call.variant, call.file, cur)
       IN call' = [call EXCEPT !.n = @ + 1, !.cur = cur, !.prev = call.cur,
                   !.file = r.file, !.loaded = r.loaded, !.delta = r.delta]
    /\ UNCHANGED <<inv, shm, sop, last, derived>>

\* ---- the telnet session of the FRRouting module ----

\* the daemon names of instancePorts that are followed
InstancePorts == {<<"z", "e", "b", "r", "a">>, <<"b", "g", "p", "d">>}

\* the names GetInstance is called with: the daemon names, other spellings
\* of them and a name of no daemon
Spellings ==
    InstancePorts \cup
    {<<"z", "e", "b", "r", "A">>, <<" ", "z", "e", "b", "r", "a">>,
     <<"b", "g", "p", "d", " ">>, <<"b", "g", "p">>}

RECURSIVE TrimLeft(_)
TrimLeft(str) ==
    IF Len(str) > 0 /\ str[1] = " " THEN TrimLeft(Tail(str)) ELSE str

RECURSIVE TrimRight(_)
TrimRight(str) ==
    IF Len(str) > 0 /\ str[Len(str)] = " "
    THEN TrimRight(SubSeq(str, 1, Len(str) - 1)) ELSE str

\* strings.TrimSpace
TrimSpace(str) == TrimRight(TrimLeft(str))

\* the instance the map holds under a name: s.instances[name]
InstanceOf(instances, name) ==
    (CHOOSE e \in instances : e[1] = name)[2]

HasInstance(instances, name) == \E e \in instances : e[1] = name

\* s.instances[name] = instance
PutInstance(instances, name, id) ==
    {e \in instances : e[1] # name} \cup {<<name, id>>}

NoInstance == 0

\* the name the map is looked up with: the name as it was passed
LookupName(name) == name

\* NewTelnetSession, NewSession: a session without instances
CallNewSession ==
    /\ CallIdle
    /\ call' = [fn |-> "GetInstance", instances |-> {}, before |-> {},
                made |-> {}, asked |-> {}, n |-> 0, name |-> << >>,
                ret |-> NoInstance, err |-> "nil"]
    /\ UNCHANGED <<inv, shm, sop, last, derived>>

\* GetInstance(name); initOk tells whether instance.initialize() succeeds
CallGetInstance(name, initOk) ==
    /\ call.fn = "GetInstance"
    /\ call.n < MaxCalls
    /\ LET norm == TrimSpace(ToLower(name))
           id == Cardinality(call.made) + 1
           base == [call EXCEPT !.n = @ + 1, !.name = name,
                                !.before = call.instances,
                                !.asked = IF call.err = "nil" /\ call.n > 0
                                          THEN @ \cup {<<call.name, call.ret>>}
                                          ELSE @]
       IN call' =
            IF HasInstance(call.instances, LookupName(name))
            THEN [base EXCEPT
                    !.ret = InstanceOf(call.instances, LookupName(name)),
                    !.err = "nil"]
            ELSE IF norm \in InstancePorts
            THEN IF ~initOk
                 THEN [base EXCEPT !.ret = NoInstance, !.err = "initialize"]
                 ELSE [base EXCEPT
                         !.instances = PutInstance(@, norm, id),
                         !.made = @ \cup {<<norm, id>>},
                         !.ret = id, !.err = "nil"]
            ELSE [base EXCEPT !.ret = NoInstance, !.err = "unknown"]
    /\ UNCHANGED <<inv, shm, sop, last, derived>>

\* ---- the registry of modules and plugins ----

\* the modules of main, by name
Modules == {"frrouting", "system"}

\* names of plugins
PluginNames == {"load", "memory"}

NoModule == "nil"

NoPlugin == 0

\* the plugin a module holds under a name: m.plugins[pluginName]
PluginOf(plugins, name) == (CHOOSE e \in plugins : e[1] = name)[2]

HasPlugin(plugins, name) == \E e \in plugins : e[1] = name

\* a map that keeps the plugin it holds under the name
PutPlugin_KeepFirst(plugins, name, id) ==
    IF HasPlugin(plugins, name) THEN plugins ELSE plugins \cup {<<name, id>>}

\* m.plugins[plugin.Name()] = plugin
PutPlugin(plugins, name, id) ==
    {e \in plugins : e[1] # name} \cup {<<name, id>>}

\* NewModule for each module of main: no plugins yet
CallNewModules ==
    /\ CallIdle
    /\ call' = [fn |-> "modules", stage |-> "build", objects |-> << >>,
                plugins |-> [m \in Modules |-> {}], ms |-> << >>,
                result |-> {}, get |-> [module |-> NoModule]]
    /\ UNCHANGED <<inv, shm, sop, last, derived>>

\* ModulePlugin(newPlugin()): a plugin is made and registered in a module
CallRegisterPlugin(m, name) ==
    /\ call.fn = "modules" /\ call.stage = "build"
    /\ Len(call.objects) < MaxPlugins
    /\ LET id == Len(call.objects) + 1 IN
       call' = [call EXCEPT
                  !.objects = Append(@, [name |-> name, into |-> m,
                                         module |-> NoModule]),
                  !.plugins[m] = PutPlugin(@, name, id)]
    /\ UNCHANGED <<inv, shm, sop, last, derived>>

\* plugin.setModule(module) for the plugins of the modules from the i-th on
RECURSIVE SetModules(_, _, _, _)
SetModules(objects, plugins, ms, i) ==
    IF i > Len(ms) THEN objects
    ELSE SetModules(
           [j \in 1..Len(objects) |->
               IF \E e \in plugins[ms[i]] : e[2] = j
               THEN [objects[j] EXCEPT !.module = ms[i]]
               ELSE objects[j]],
           plugins, ms, i + 1)

\* RegisterModules(ms...)
CallRegisterModules(ms) ==
    /\ call.fn = "modules" /\ call.stage = "build"
    /\ call' = [call EXCEPT
                  !.stage = "registered", !.ms = ms,
                  !.result = {ms[i] : i \in 1..Len(ms)},
                  !.objects = SetModules(@, call.plugins, ms, 1)]
    /\ UNCHANGED <<inv, shm, sop, last, derived>>

\* module.GetPluginByName(pluginName)
CallGetPluginByName(m, name) ==
    /\ call.fn = "modules" /\ call.stage = "registered"
    /\ call' = [call EXCEPT !.get =
                  IF HasPlugin(call.plugins[m], name)
                  THEN [module |-> m, name |-> name,
                        plugin |-> PluginOf(call.plugins[m], name),
                        err |-> "nil"]
                  ELSE [module |-> m, name |-> name, plugin |-> NoPlugin,
                        err |-> "plugin not found"]]
    /\ UNCHANGED <<inv, shm, sop, last, derived>>

\* the lists of modules RegisterModules is called with
ModuleLists == UNION {[1..l -> Modules] : l \in 0..2}

NextLib ==
    \/ \E l, e, w \in BOOLEAN : CallResourceProbe(l, e, w)
    \/ CallNewModules
    \/ \E m \in Modules, name \in PluginNames : CallRegisterPlugin(m, name)
    \/ \E ms \in ModuleLists : CallRegisterModules(ms)
    \/ \E m \in Modules, name \in PluginNames : CallGetPluginByName(m, name)
    \/ CallNewSession
    \/ \E name \in Spellings, initOk \in BOOLEAN : CallGetInstance(name, initOk)
    \/ \E v \in IfVariants, tx, rx \in Counters : CallInterfaceFirst(v, tx, rx)
    \/ \E tx, rx \in Counters : CallInterfaceNext(tx, rx)
    \/ \E timeout \in 0..Timeout, delay \in 0..MaxDelay :
         RdCall(timeout, delay)
    \/ \E ok \in BOOLEAN, dur \in AttemptDurs : RdAttempt(ok, dur)
    \/ RdCheck
    \/ RdSleep

SpecLib == Init /\ [][NextLib]_vars

\* the loop of RetryDuring is not stopped from outside: the function
\* returns, the clock is read and the sleep ends
SpecLibLive == SpecLib /\ WF_vars(RdStep)

Next ==
    \/ Tick
    \/ \E p \in Procs : TryOpen(p)
    \/ \E p \in Procs : TryFlock(p)
    \/ \E p \in Procs : LoadOpen(p)
    \/ \E p \in Procs : LoadRead(p)
    \/ \E p \in Procs : Probe(p)
    \/ \E p \in Procs : SaveOpen(p)
    \/ \E p \in Procs : SaveWrite(p)
    \/ \E p \in Procs : Unlink(p)
    \/ \E p \in Procs : Unlock(p)
    \/ \E p \in Procs : Crash(p)
    \/ \E p \in Procs : Restart(p)

Spec == Init /\ [][Next]_vars

\* the same invocations, started on the regions of InitPrior
SpecPrior == InitPrior /\ [][Next]_vars

TypeOK ==
    /\ \A p \in Procs :
         exitStatus[p] \in ExitCodes \cup {NoStatus, PanicStatus, KilledStatus}
    /\ \A p \in Procs : elapsed[p] \in 0..(Timeout + Delay)
    /\ \A p \in Procs : fh[p] \in 0..MaxRuns
    /\ inodes \in 0..MaxRuns

(* ============================ properties ============================== *)

Events(p) == {trace[p][i] : i \in 1..Len(trace[p])}

\* the Load -> probe -> Save section of ExecutePersistentCheck
SectionPcs == {"load_open", "load_read", "probe", "save_open", "save_write"}

InSection(p) == pc[p] \in SectionPcs

\* ensureFlock of the invocation has returned an error
TimedOut(p) == "lock_timeout" \in Events(p)

\* the number a region stands for: what a Load into a zero target yields
StoredValue(k) == LoadDecode(ShmOpen(shm[k], shmReadFlags), 0).val

\* C1: mutual exclusion -- at most one invocation per key is inside the
\* Load -> probe -> Save section.  The code does not keep it: a waiter that
\* has opened the lock file takes the flock of the unlinked file, a
\* newcomer creates and locks a new file.
C1_MutualExclusion ==
    \A p, q \in Procs :
        (p # q /\ key[p] = key[q]) => ~(InSection(p) /\ InSection(q))

\* C2: no lost updates -- when every invocation has ended on its own (none
\* was killed), the region of a key holds the number of invocations of that
\* key that saved.  Fails with C1.
C2_NoLostUpdates ==
    (kills = 0 /\ \A p \in Procs : pc[p] \in {"exited", "panicked"}) =>
        \A k \in Keys : StoredValue(k) = saves[k]

\* C3: partial-failure persistence -- a probe that has mutated the store and
\* returns an error is followed by the save, not by an abort, and the save
\* writes the mutated value, not the loaded one, into the region its open
\* has truncated.
C3_PartialFailurePersistence ==
    [][\A p \in Procs :
         /\ (pc[p] = "probe" /\ pc'[p] # "probe" /\ probeErr'[p])
              => pc'[p] \in {"save_open", "crashed"}
         /\ (pc[p] = "save_write" /\ pc'[p] \notin {"save_write", "crashed"}
             /\ probeErr[p] /\ shm[key[p]] = <<>>)
              => /\ pc'[p] = "unlink"
                 /\ shm'[key[p]] = Marshal(loaded[p] + 1)
                 /\ shm'[key[p]] # Marshal(loaded[p])]_vars

C3_Witness ==
    \E p \in Procs :
        /\ probeErr[p] /\ pc[p] = "unlink" /\ loaded[p] > 0
        /\ shm[key[p]] = Marshal(loaded[p] + 1)

\* the invocation was killed after its Load and before its Save began
KilledBeforeSave(p) ==
    /\ pc[p] = "crashed"
    /\ "loaded" \in Events(p)
    /\ trace[p][Len(trace[p])] \in {"probe", "save_open"}

\* C4: crash before save -- Load yields the value the non-empty region
\* decodes to, and no step of the invocation from the Load up to and
\* including a kill before the Save begins changes a non-empty region.
C4_CrashBeforeSaveKeepsStore ==
    [][\A p \in Procs :
         LET region == shm[key[p]] IN
         (region # Absent /\ region # <<>>) =>
           /\ (pc[p] = "load_read" /\ pc'[p] = "probe")
                => loaded'[p] = Unmarshal(region, 0).val
           /\ (\/ pc[p] \in {"load_open", "load_read", "probe"}
                   /\ pc'[p] # pc[p]
               \/ pc[p] = "save_open" /\ pc'[p] = "crashed")
                => shm' = shm]_vars

C4_Witness ==
    \E p \in Procs :
        /\ KilledBeforeSave(p)
        /\ loaded[p] > 0
        /\ shm[key[p]] = Marshal(loaded[p])

\* C5: never partially written -- whenever no invocation is inside a Save
\* of the key, a region some Save has written holds the complete encoding
\* of a saved value.  The code does not keep it: a kill between the
\* truncating open and the write leaves the region empty.
C5_NeverPartiallyWritten ==
    \A k \in Keys :
        (/\ saves[k] > 0
         /\ ~\E p \in Procs : key[p] = k /\ pc[p] = "save_write")
        => \E v \in 1..MaxRuns : shm[k] = Marshal(v)

LoadDone == sop.step = "done" /\ sop.op = "load"
SaveDone == sop.step = "done" /\ sop.op = "save"

\* C6: round trip -- a Load that follows the successful Save of v on its
\* key, no other Save of the key begun in between, returns no error and
\* leaves v in the target, whatever the target held.
C6_RoundTrip ==
    (LoadDone /\ last[sop.k] # NoValue)
        => (~sop.err /\ sop.val = last[sop.k])

C6_Witness ==
    /\ LoadDone
    /\ last[sop.k] = MaxValue
    /\ sop.v # MaxValue
    /\ sop.val = MaxValue

\* C7: first-run default -- a Load of a key whose region is absent or empty
\* returns no error, leaves the target as the caller supplied it, and
\* changes nothing but making the region of the key exist, empty.
C7_FirstRunDefault ==
    (LoadDone /\ sop.before[sop.k] \in {Absent, <<>>})
        => /\ ~sop.err
           /\ sop.val = sop.v
           /\ shm = [sop.before EXCEPT ![sop.k] = <<>>]

C7_Witness ==
    /\ LoadDone
    /\ sop.before[sop.k] = Absent
    /\ sop.v # 0
    /\ sop.val = sop.v
    /\ shm[sop.k] = <<>>

\* C8: full overwrite -- after a successful Save the region is exactly the
\* encoding of the saved value, also when the region held a longer
\* encoding before, and it stays so until the next Save begins.
C8_SaveFullOverwrite ==
    \A k \in Keys : last[k] # NoValue => shm[k] = Marshal(last[k])

C8_Witness ==
    /\ SaveDone
    /\ ~sop.err
    /\ Len(sop.before[sop.k]) > Len(Marshal(sop.v))
    /\ sop.before[sop.k] # Absent
    /\ shm[sop.k] = Marshal(sop.v)

\* C9: timeout enforcement -- ensureFlock gives up only when more than
\* Timeout has elapsed since it began, it gives up at most one Delay after
\* that, and no invocation is still waiting later than that.
C9_TimeoutEnforcement ==
    \A p \in Procs :
        /\ pc[p] \in {"try_flock", "sleep"} => elapsed[p] <= Timeout + Delay
        /\ TimedOut(p) =>
             (deltaTime[p] > Timeout /\ deltaTime[p] <= Timeout + Delay)

C9_Witness ==
    \E p, q \in Procs :
        /\ TimedOut(p) /\ deltaTime[p] > Timeout
        /\ key[q] = key[p] /\ pc[q] = "probe"

\* C10: lock timeout aborts before any store access -- an invocation whose
\* ensureFlock failed has panicked and has taken no other step: no open of
\* the region, no Load, no probe, no Save.
C10_TimeoutBeforeStoreAccess ==
    \A p \in Procs :
        TimedOut(p) =>
            /\ pc[p] = "panicked"
            /\ trace[p] = <<"lock_timeout">>
            /\ store[p] = 0

C10_Witness ==
    \E p \in Procs :
        /\ TimedOut(p)
        /\ pc[p] = "panicked"
        /\ shm[key[p]] # Absent

\* the region of the key holds content and Load cannot decode it
RegionUndecodable(k) ==
    /\ shm[k] # Absent
    /\ Len(shm[k]) > 0
    /\ Unmarshal(shm[k], 0).err

\* C11: decode failure is fatal and never resets the store -- a Load of a
\* region whose content is not empty and does not decode returns an error,
\* the invocation panics with no probe and no Save, and neither the open
\* nor the read of that Load changes the region or puts a default into the
\* target.
C11_DecodeFailureFatal ==
    /\ [](\A p \in Procs :
            "load_failed" \in Events(p) =>
                /\ pc[p] = "panicked"
                /\ trace[p] = <<"locked", "load_open", "load_failed">>)
    /\ [][\A p \in Procs :
            (RegionUndecodable(key[p]) /\ pc'[p] # pc[p]) =>
              /\ pc[p] = "load_open" => shm' = shm
              /\ pc[p] = "load_read" =>
                    /\ pc'[p] \in {"panicked", "crashed"}
                    /\ shm' = shm
                    /\ store'[p] = store[p]]_vars

C11_Witness ==
    \E p \in Procs :
        /\ "load_failed" \in Events(p)
        /\ pc[p] = "panicked"
        /\ shm[key[p]] = Undecodable
        /\ saves[key[p]] = 0

\* no invocation of the key is between its start and its end
Quiet(k) == \A p \in Procs : key[p] = k => pc[p] \in {"start"} \cup Ended

\* no invocation of the key other than p is between its start and its end
AloneOnKey(p) ==
    \A q \in Procs :
        (q # p /\ key[q] = key[p]) => pc[q] \in {"start"} \cup Ended

\* C12: lock cleanup -- the unlink of the release step removes the lock
\* path; once an invocation has released and no invocation of the key is
\* running (none was killed with the file in place), the path does not
\* exist; and an ensureFlock that runs when no other invocation of the key
\* does takes the lock with its first TryLock, without a sleep.
C12_LockCleanup ==
    /\ [](\A k \in Keys :
            (/\ kills = 0
             /\ Quiet(k)
             /\ \E p \in Procs : key[p] = k /\ pc[p] = "exited")
            => lockPath[k] = NoInode)
    /\ [][\A p \in Procs :
            /\ (pc[p] = "unlink" /\ pc'[p] = "unlock")
                  => lockPath'[key[p]] = NoInode
            /\ (pc[p] = "try_flock" /\ AloneOnKey(p) /\ pc'[p] # pc[p])
                  => pc'[p] \in {"load_open", "crashed"}]_vars

\* an invocation has released, the next one of the key has created the lock
\* file anew and holds its lock after one attempt
C12_Witness ==
    \E p \in Procs :
        /\ runs > NumProcs
        /\ AloneOnKey(p)
        /\ saves[key[p]] = 1
        /\ pc[p] = "load_open"
        /\ trace[p] = <<"locked">>
        /\ fh[p] = 2 /\ lockPath[key[p]] = 2 /\ inodeLock[2] = p

\* the invocation holds the flock of some lock file
HoldsLock(p) == \E i \in Inodes : inodeLock[i] = p

\* C13: release on every exit path -- a run that has ended on its own,
\* normally or by a panic after a lock timeout, a failed Load or a failed
\* Save, holds no lock and has unlinked the lock file.  The code does not
\* keep the second half: a panic runs the deferred Unlock only, the unlink
\* is never reached and the file stays at the lock path.
C13_ReleaseOnEveryExit ==
    \A p \in Procs :
        pc[p] \in {"exited", "panicked"} =>
            /\ ~HoldsLock(p)
            /\ fh[p] = NoInode
            /\ "unlinked" \in Events(p)

\* C14: key derivation is collision-free -- no other pair of check name
\* and discriminator yields the key ResourcePersistence has derived.  The
\* code does not keep it: nagocheck/resource.go concatenates without a
\* separator, part_006 lower-cases and does not escape the separator.
C14_KeyCollisionFree ==
    derived.variant \in {"resource", "resource_v1"} =>
        \A name \in CheckNames, uniqueKey \in Discriminators :
            <<name, uniqueKey>> # <<derived.name, derived.uniqueKey>>
                => PersistenceKey(derived.variant, name, uniqueKey)
                     # derived.key


\* the number of path separators in a string
RECURSIVE Separators(_)
Separators(str) ==
    IF Len(str) = 0 THEN 0
    ELSE (IF str[1] = "/" THEN 1 ELSE 0) + Separators(Tail(str))

\* C15: namespace-safe names -- the persistence key ExecutePersistentCheck
\* uses for the store and the lock is lower-cased and holds no path
\* separator, whatever discriminator the caller supplied; it is the
\* lower-cased nagocheck.<check-name>-<discriminator> and its lock path
\* /tmp/.<key>.lock has the two separators of /tmp/ only.  The code does
\* not keep it: ExecutePersistentCheck uses the discriminator as it is.
C15_NamespaceSafe ==
    derived.variant = "shared" =>
        /\ derived.key = ToLower(derived.key)
        /\ Separators(derived.key) = 0
        /\ derived.key =
              ToLower(PluginPrefix \o derived.name \o <<"-">>
                        \o derived.uniqueKey)
        /\ Separators(LockFilePath(derived.key)) = 2

\* a load or a store of a resource without a persistence key has returned
NoKeyDone == sop.step = "done" /\ sop.op \in {"load_nokey", "save_nokey"}

\* C16: persistence is opt-in -- the load and the store of a resource that
\* has no persistence key return no error, leave the target as it was and
\* change no region: none is created, truncated or written.
C16_PersistenceOptIn ==
    NoKeyDone =>
        /\ ~sop.err
        /\ sop.val = sop.v
        /\ shm = sop.before

C16_Witness ==
    /\ NoKeyDone
    /\ sop.op = "save_nokey"
    /\ sop.v = 0
    /\ shm["k1"] = Marshal(7)
    /\ shm["k2"] = Absent

\* the step is one of invocation p
StepOf(p) == pc'[p] # pc[p] \/ fh'[p] # fh[p] \/ trace'[p] # trace[p]

\* no other invocation of the key of p holds a lock
KeyFree(p) == \A q \in Procs : (q # p /\ key[q] = key[p]) => ~HoldsLock(q)

\* no other invocation works on the key of p
OwnKey(p) == \A q \in Procs : q # p => key[q] # key[p]

\* C17: independence of different keys -- an invocation whose key no other
\* invocation works on never sleeps in ensureFlock and never times out; a
\* first TryLock made while no invocation of the same key holds a lock
\* succeeds; and a step of an invocation leaves the region, the lock path
\* and the lock of the lock file of every other key as they are.
C17_KeyIndependence ==
    /\ [](\A p \in Procs :
            OwnKey(p) => (pc[p] # "sleep" /\ ~TimedOut(p)))
    /\ [][\A p \in Procs :
            /\ (pc[p] = "try_flock" /\ KeyFree(p) /\ pc'[p] # pc[p])
                  => pc'[p] \in {"load_open", "crashed"}
            /\ StepOf(p) =>
                  \A k \in Keys \ {key[p]} :
                      /\ shm'[k] = shm[k]
                      /\ lockPath'[k] = lockPath[k]
                      /\ lockPath[k] # NoInode =>
                            inodeLock'[lockPath[k]] = inodeLock[lockPath[k]]
           ]_vars

\* two invocations on different keys are inside their sections at once,
\* each with the lock it took at the first attempt
C17_Witness ==
    \E p, q \in Procs :
        /\ key[p] # key[q]
        /\ pc[p] = "save_write" /\ HoldsLock(p)
        /\ pc[q] = "load_open" /\ HoldsLock(q)
        /\ trace[q] = <<"locked">>
        /\ lockPath[key[p]] # lockPath[key[q]]

\* the steps of a run of ExecutePersistentCheck that reaches os.Exit
FullRun == <<"locked", "load_open", "loaded", "executed", "save_open",
             "saved", "unlinked", "unlocked", "printed", "exit">>

\* the steps that end a run by a panic
Failures == {"lock_timeout", "load_failed", "save_failed"}

\* the steps so far are the first ones of FullRun, or these and a failure
InOrder(p) ==
    \E n \in 0..Len(FullRun) :
        /\ n <= Len(trace[p])
        /\ SubSeq(trace[p], 1, n) = SubSeq(FullRun, 1, n)
        /\ \/ Len(trace[p]) = n
           \/ Len(trace[p]) = n + 1 /\ trace[p][n + 1] \in Failures

\* C18: coordinator step order -- a run that has reached os.Exit has made
\* each step once and in the order lock, Load, probe, Save, unlink, Unlock,
\* print, exit, and has ended with the exit code of the check's result; a
\* run that is on its way or has panicked has made the first steps of that
\* order.  The output is printed only after the Save and the release.
C18_StepOrder ==
    \A p \in Procs :
        /\ pc[p] = "exited" =>
              /\ trace[p] = FullRun
              /\ exitStatus[p] = RuntimeExecute(probeErr[p]).exitCode
        /\ pc[p] # "crashed" => InOrder(p)
        /\ "printed" \in Events(p) =>
              {"saved", "unlinked", "unlocked"} \subseteq Events(p)

C18_Witness ==
    \E p \in Procs :
        /\ pc[p] = "exited"
        /\ trace[p] = FullRun
        /\ ~probeErr[p]
        /\ exitStatus[p] = 0
        /\ shm[key[p]] = Marshal(store[p])

\* the run of the invocation has failed in ensureFlock, Load or Save
Failed(p) == Events(p) \cap Failures # {}

\* C19: fatal and non-fatal outcomes -- a run whose lock acquisition, Load
\* or Save has failed has panicked: it has not printed the verdict and its
\* exit status is that of a panic, which is not zero; a run in which only
\* the probe failed has printed the verdict and has ended with the exit
\* code of the result of the evaluation engine.
C19_FatalVersusNonFatal ==
    \A p \in Procs :
        /\ Failed(p) =>
              /\ pc[p] = "panicked"
              /\ "printed" \notin Events(p)
              /\ exitStatus[p] = PanicStatus
              /\ exitStatus[p] # 0
        /\ (pc[p] = "exited" /\ probeErr[p]) =>
              /\ ~Failed(p)
              /\ "printed" \in Events(p)
              /\ exitStatus[p] = RuntimeExecute(TRUE).exitCode

\* one run has ended by a failed Save, another has printed the verdict of a
\* failed probe
C19_Witness ==
    \E p, q \in Procs :
        /\ "save_failed" \in Events(p) /\ pc[p] = "panicked"
        /\ shm[key[p]] = <<>>
        /\ pc[q] = "exited" /\ probeErr[q] /\ exitStatus[q] = 3

\* how often the step occurs in the run of the invocation
Count(p, ev) == Cardinality({i \in 1..Len(trace[p]) : trace[p][i] = ev})

\* the lock file the invocation has open is locked by another invocation
HeldByOther(p) == fh[p] # NoInode /\ inodeLock[fh[p]] \notin {NoProc, p}

\* the step is a failed attempt of ensureFlock after which RetryDuring
\* sleeps to try again
RetryStep(p) ==
    /\ pc'[p] = "sleep"
    /\ \/ pc[p] = "try_flock"
       \/ pc[p] = "sleep" /\ phase'[p] < phase[p]

\* C20: only lock contention is retried -- a run opens the region at most
\* once for its Load and at most once for its Save and a failed Load or
\* Save ends it; and RetryDuring sleeps to try again only when the lock is
\* held by another invocation.  The code does not keep the second half:
\* RetryDuring retries on any error of TryLock, also when the lock file
\* cannot be opened.
C20_OnlyContentionRetried ==
    /\ [](\A p \in Procs :
            /\ Count(p, "load_open") <= 1
            /\ Count(p, "loaded") + Count(p, "load_failed") <= 1
            /\ Count(p, "save_open") <= 1
            /\ Count(p, "saved") + Count(p, "save_failed") <= 1
            /\ (Events(p) \cap {"load_failed", "save_failed"} # {})
                  => pc[p] = "panicked")
    /\ [][\A p \in Procs : RetryStep(p) => HeldByOther(p)]_vars

\* C21: the persistence-aware resource saves regardless of the probe's
\* outcome -- once the wrapped probe has returned, storePersistentData is
\* attempted; a failed probe makes Probe return the probe's error, a failed
\* store is returned only after a probe without error.  The code does not
\* keep it: Probe returns at the probe's error, before the store.
C21_SaveRegardlessOfProbe ==
    (call.fn = "Probe" /\ call.result.probed) =>
        /\ call.result.storeAttempted
        /\ call.probeErr => call.result.err = "probe"
        /\ ~call.probeErr =>
              call.result.err = (IF call.storeErr THEN "store" ELSE "nil")

\* RetryDuring is the call under examination
InRetryDuring == call.fn = "RetryDuring"

\* RetryDuring has returned
RdReturned == InRetryDuring /\ call.pc = "returned"

\* C22: the result of RetryDuring -- it has called the function once at
\* least when it returns; it returns nil exactly when the last attempt
\* returned nil, and no attempt before the last one did; it returns an
\* error only right after a failed attempt at which the time since the
\* start was greater than the timeout.
C22_RetryDuringResult ==
    InRetryDuring =>
        /\ Len(call.outcomes) = call.attempts
        /\ \A i \in 1..(call.attempts - 1) : ~call.outcomes[i]
        /\ (call.attempts > 0 /\ call.outcomes[call.attempts])
              => (RdReturned /\ call.ret = "nil")
        /\ RdReturned =>
              /\ call.attempts >= 1
              /\ call.ret \in {"nil", "error"}
              /\ call.ret = "nil" <=> call.outcomes[call.attempts]
              /\ call.ret = "error" =>
                    /\ call.deltaTime > call.timeout
                    /\ call.deltaTime = call.elapsed
        /\ ~RdReturned => call.ret = "none"

\* RetryDuring has returned nil after failed attempts and a sleep
C22_Witness ==
    /\ RdReturned
    /\ call.ret = "nil"
    /\ call.attempts = 3
    /\ call.elapsed > call.timeout
    /\ call.timeout > 0

\* C23: no acquisition after the deadline -- a TryLock attempt of
\* ensureFlock that begins when more than the timeout has elapsed since
\* ensureFlock began does not take the lock.  The code does not keep it:
\* RetryDuring reads the clock only after a failed attempt, so the attempt
\* that follows the last sleep runs past the deadline and may succeed.
C23_NoAcquisitionAfterDeadline ==
    [][\A p \in Procs :
         (AtFlock(p) /\ elapsed[p] > Timeout /\ pc'[p] # pc[p])
             => pc'[p] \in {"panicked", "crashed"}]_vars

\* the most attempts a RetryDuring with a positive delay makes: one more
\* than the sleeps that begin before the timeout has passed, and one
MostAttempts == (call.timeout \div call.delay) + 2

\* C24: the acquisition phase terminates -- a RetryDuring with a positive
\* delay, on a clock that advances with each sleep, makes a bounded number
\* of attempts and returns, also when the function fails forever.
C24_AcquisitionTerminates ==
    /\ []((InRetryDuring /\ call.delay > 0) =>
             call.attempts <= MostAttempts)
    /\ ((InRetryDuring /\ call.delay > 0) ~> RdReturned)

\* RetryDuring has given up after the most attempts it can make
C24_Witness ==
    /\ RdReturned
    /\ call.delay > 0
    /\ call.ret = "error"
    /\ call.timeout > 0
    /\ call.attempts = MostAttempts
    /\ \A i \in 1..call.attempts : ~call.outcomes[i]

\* C25: release removes only the releaser's own lock file -- when an
\* invocation unlinks the lock path, the file the path names is the one the
\* invocation has open and holds the lock of.  The code does not keep it:
\* an invocation that holds the lock of an unlinked file unlinks by name
\* and removes the file a newcomer has created and locked.
C25_ReleaseOwnFileOnly ==
    [][\A p \in Procs :
         (pc[p] = "unlink" /\ pc'[p] = "unlock"
          /\ lockPath[createFlock(p)] # NoInode)
             => /\ lockPath[createFlock(p)] = fh[p]
                /\ inodeLock[fh[p]] = p]_vars

\* the lock path of the key names a file no running invocation has open:
\* a run that was killed or has panicked has left it
LeftOver(k) ==
    /\ lockPath[k] # NoInode
    /\ \A p \in Procs : fh[p] # lockPath[k]

\* the invocation was killed while it held the lock
KilledHolding(p) ==
    /\ pc[p] = "crashed"
    /\ "locked" \in Events(p)
    /\ "unlocked" \notin Events(p)

PersistedFor(metric) ==
    call.file[JsonName(BoundField(call.variant, metric))]

C28_OneInstancePerDaemon ==
    (call.fn = "GetInstance" /\ call.n > 0) =>
        /\ \A e, f \in call.made : e[1] = f[1] => e = f
        /\ call.err = "nil" =>
              \A a \in call.asked : a[1] = call.name => a[2] = call.ret
        /\ call.err # "nil" => call.instances = call.before

\* the plugins that were registered in a module under a name, in the
\* order of their registration
RegisteredAs(m, name) ==
    {j \in 1..Len(call.objects) :
        call.objects[j].into = m /\ call.objects[j].name = name}

\* the plugin that was registered last in the module under the name
LastRegistered(m, name) ==
    CHOOSE j \in RegisteredAs(m, name) : \A k \in RegisteredAs(m, name) : k <= j

\* C29: module registry consistency -- after RegisterModules(ms) every
\* plugin a module of ms holds has that module as its Module(); a module
\* holds under each name that was registered the one plugin registered
\* last under it and holds nothing under other names; GetPluginByName
\* returns that plugin and a nil error for a registered name, a nil
\* plugin and an error for every other name.  Each plugin is made for the
\* module it is registered in, as ModulePlugin(newPlugin()) does.
C29_RegistryConsistent ==
    (call.fn = "modules" /\ call.stage = "registered") =>
        /\ \A m \in call.result : \A e \in call.plugins[m] :
              /\ call.objects[e[2]].module = m
              /\ call.objects[e[2]].name = e[1]
        /\ \A m \in Modules, n \in PluginNames :
              IF RegisteredAs(m, n) = {}
              THEN ~HasPlugin(call.plugins[m], n)
              ELSE {e \in call.plugins[m] : e[1] = n}
                     = {<<n, LastRegistered(m, n)>>}
        /\ call.get.module # NoModule =>
              IF RegisteredAs(call.get.module, call.get.name) # {}
              THEN /\ call.get.err = "nil"
                   /\ call.get.plugin
                        = LastRegistered(call.get.module, call.get.name)
              ELSE /\ call.get.err # "nil"
                   /\ call.get.plugin = NoPlugin

\* two plugins were registered in one module under one name and a third
\* in the other module; both modules were passed to RegisterModules and
\* the plugin registered last was looked up
C29_Witness ==
    /\ call.fn = "modules" /\ call.stage = "registered"
    /\ Len(call.objects) = 3 /\ Len(call.ms) = 2
    /\ call.result = Modules
    /\ Cardinality(RegisteredAs("system", "load")) = 2
    /\ call.objects[3].module = "frrouting"
    /\ call.get.module = "system" /\ call.get.name = "load"
    /\ call.get.plugin = 2 /\ call.objects[2].module = "system"
    /\ call.objects[1].module = NoModule

====
